---------------------------- MODULE Spec2Model ----------------------------
(***************************************************************************)
(* Message classification and escalation: the /api/classify handler of     *)
(* routes/classifier_routes.py with its text normalizer, its rule-based    *)
(* fallback classifier, the validation of the remote model's reply and     *)
(* the support-ticket recorder, and the /api/support-ticket handler that   *)
(* writes to the same collection.                                          *)
(*                                                                         *)
(* Specifications.                                                         *)
(*   - Spec: one classify request from end to end, over all inputs.        *)
(*   - SpecHang: the same with a remote call that does not come back.      *)
(*   - SpecStore: two classify requests and one ticket creation in flight  *)
(*     at the same time, on one store.                                     *)
(*   - SpecDelete: one classify request, one ticket creation and the       *)
(*     deletion of a student account in flight at the same time.           *)
(*   - SpecRule: the rule classifier alone, over composed texts.           *)
(*                                                                         *)
(* Conventions.                                                            *)
(*   - A text is a sequence of characters; a character is a string: the    *)
(*     ASCII character itself, or "U+XXXX" for a non-ASCII code point.     *)
(*   - A confidence is kept in hundredths (0.98 is 98), so that the        *)
(*     clamping to [0.0, 1.0] is integer arithmetic on [0, 100].           *)
(*   - A JSON value is a record [t, n, s, items]: t is its type tag.       *)
(***************************************************************************)
EXTENDS Integers, Sequences, FiniteSets, TLC

(***************************************************************************)
(* Characters and texts                                                    *)
(***************************************************************************)
Chars(s) == [i \in 1..Len(s) |-> SubSeq(s, i, i)]

UpperAlpha == "ABCDEFGHIJKLMNOPQRSTUVWXYZ"
LowerAlpha == "abcdefghijklmnopqrstuvwxyz"
Digits == "0123456789"

RangeOf(seq) == {seq[i] : i \in 1..Len(seq)}

UpperSet == RangeOf(Chars(UpperAlpha))
LowerSet == RangeOf(Chars(LowerAlpha))
DigitSet == RangeOf(Chars(Digits))

\* str.lower() on one character
LowerTable == [c \in UpperSet |->
                 LET i == CHOOSE k \in 1..Len(UpperAlpha) : SubSeq(UpperAlpha, k, k) = c
                 IN  SubSeq(LowerAlpha, i, i)]
LowerChar(c) == IF c \in UpperSet THEN LowerTable[c] ELSE c

\* unicodedata.normalize("NFKD", .) on one character: the compatibility
\* decomposition.  U+00E9 (e acute) decomposes into e + U+0301, the
\* fullwidth letters U+FF29 / U+FF53 into I / s, U+3385 (square KB) into
\* K B; U+2019 (right single quotation mark) and the ASCII characters have
\* no decomposition.
NFKDChar(c) == CASE c = "U+00E9" -> <<"e", "U+0301">>
                 [] c = "U+3385" -> <<"K", "B">>
                 [] c = "U+FF29" -> <<"I">>
                 [] c = "U+FF53" -> <<"s">>
                 [] OTHER        -> <<c>>

RECURSIVE NFKD(_)
NFKD(text) == IF text = <<>> THEN <<>>
              ELSE NFKDChar(Head(text)) \o NFKD(Tail(text))
Lower(text) == [i \in 1..Len(text) |-> LowerChar(text[i])]
\* str.replace(old, new) for a one-character old
Replace(text, old, new) == [i \in 1..Len(text) |-> IF text[i] = old THEN new ELSE text[i]]

\* Python's None where a text is expected
PyNone == <<"<None>">>
\* str(msg or "") of line 59
str_or_empty(msg) == IF msg = PyNone \/ msg = <<>> THEN <<>> ELSE msg

\* the same steps with the lowering before the decomposition
_normalize_text_lower_first(msg) == Replace(NFKD(Lower(str_or_empty(msg))), "'", "'")

\* The replace of line 62 has the ASCII apostrophe on both sides.
_normalize_text(msg) == Replace(Lower(NFKD(str_or_empty(msg))), "'", "'")

(***************************************************************************)
(* Regular expressions: \b(alt|alt|...)\b under re.search, re.IGNORECASE   *)
(***************************************************************************)
Whitespace == {" ", "\t", "\n"}
WordChars == UpperSet \cup LowerSet \cup DigitSet \cup {"_"}

One(cs) == [cs |-> cs, q |-> "one"]
Opt(cs) == [cs |-> cs, q |-> "opt"]
Star(cs) == [cs |-> cs, q |-> "star"]
Lit(s) == [i \in 1..Len(s) |-> One({SubSeq(s, i, i)})]

\* the positions at which pat[j..] can stop when it starts at text[i]
RECURSIVE MatchEnds(_, _, _, _)
MatchEnds(text, i, pat, j) ==
    IF j > Len(pat) THEN {i}
    ELSE LET it   == pat[j]
             here == i <= Len(text) /\ LowerChar(text[i]) \in it.cs
         IN  CASE it.q = "one"  -> IF here THEN MatchEnds(text, i + 1, pat, j + 1) ELSE {}
               [] it.q = "opt"  -> MatchEnds(text, i, pat, j + 1)
                                   \cup (IF here THEN MatchEnds(text, i + 1, pat, j + 1) ELSE {})
               [] it.q = "star" -> MatchEnds(text, i, pat, j + 1)
                                   \cup (IF here THEN MatchEnds(text, i + 1, pat, j) ELSE {})

IsWordAt(text, i) == i >= 1 /\ i <= Len(text) /\ text[i] \in WordChars
\* \b between text[i-1] and text[i]
Boundary(text, i) == IsWordAt(text, i - 1) # IsWordAt(text, i)

Search(alts, text) ==
    \E i \in 1..Len(text) :
        /\ Boundary(text, i)
        /\ \E a \in alts : \E e \in MatchEnds(text, i, a, 1) : Boundary(text, e)

CRISIS_RE ==
    { Lit("suicide"), Lit("suicidal"),
      Lit("end my life"), Lit("ending my life"),
      Lit("kill myself"),
      Lit("self") \o <<Opt({"-"} \cup Whitespace)>> \o Lit("harm"),
      Lit("harm myself"), Lit("hurt myself"), Lit("overdose"),
      Lit("i want to die"), Lit("i plan to die"),
      Lit("i don't want to live"), Lit("i dont want to live") }

IDC_RE ==
    { Lit("racist"), Lit("racial"), Lit("racism"), Lit("sexist"), Lit("sexism"),
      Lit("homophobic"), Lit("homophobia"), Lit("transphobic"), Lit("transphobia"),
      Lit("xenophobic"), Lit("xenophobia"),
      Lit("bully"), Lit("bullied"), Lit("bullying"),
      Lit("harass"), Lit("harassed"), Lit("harassment"),
      Lit("discriminate"), Lit("discrimination"), Lit("discriminated"),
      Lit("slur"),
      Lit("hate") \o <<Star(Whitespace)>> \o Lit("speech"),
      Lit("hate") \o <<Star(Whitespace)>> \o Lit("crime"),
      Lit("bigot"), Lit("bigoted"), Lit("bigotry") }

OPEN_RE ==
    { Lit("assignment") \o <<Opt({"s"})>>, Lit("homework"),
      Lit("project") \o <<Opt({"s"})>>, Lit("report") \o <<Opt({"s"})>>,
      Lit("grade") \o <<Opt({"s"})>>, Lit("mark") \o <<Opt({"s"})>>,
      Lit("exam") \o <<Opt({"s"})>>, Lit("quiz"), Lit("quizzes"),
      Lit("midterm") \o <<Opt({"s"})>>, Lit("final") \o <<Opt({"s"})>>,
      Lit("deadline") \o <<Opt({"s"})>>, Lit("extension") \o <<Opt({"s"})>>,
      Lit("professor"), Lit("instructor"), Lit("teacher"),
      Lit("ta"),   \* ta\b: its own \b coincides with the closing one
      Lit("course"), Lit("coursework"),
      Lit("syllabus"), Lit("submit"), Lit("submission") }

COUNSEL_RE ==
    { Lit("alone"), Lit("lonely"), Lit("isolated"), Lit("anxious"), Lit("anxiety"),
      Lit("stress"), Lit("stressed"), Lit("stressful"),
      Lit("depress"), Lit("depressed"), Lit("depression"), Lit("depressive"),
      Lit("panic"), Lit("overwhelmed"),
      Lit("burn") \o <<Opt({" ", "-"})>> \o Lit("out"),
      Lit("can't focus"), Lit("cant focus"),
      Lit("can") \o <<Opt({"'"})>> \o Lit("t focus"),
      Lit("sad"), Lit("cry"), Lit("crying"), Lit("hopeless"), Lit("insomnia"),
      Lit("can't sleep"), Lit("cant sleep"),
      Lit("can") \o <<Opt({"'"})>> \o Lit("t sleep"),
      Lit("sleepless") }

(***************************************************************************)
(* JSON values                                                             *)
(***************************************************************************)
JVal(t, n, s, items) == [t |-> t, n |-> n, s |-> s, items |-> items]
JNull == JVal("null", 0, "", <<>>)
JBool(b) == JVal("bool", IF b THEN 1 ELSE 0, "", <<>>)
\* a finite number, in hundredths
JNum(n) == JVal("num", n, "", <<>>)
JNaN == JVal("nan", 0, "", <<>>)
JInf == JVal("inf", 1, "", <<>>)
JNegInf == JVal("inf", -1, "", <<>>)
\* an integer literal beyond the range of a float (such as 10^400)
JBigInt == JVal("bigint", 1, "", <<>>)
JStr(s) == JVal("str", 0, s, <<>>)
JList(items) == JVal("list", 0, "", items)
\* a nested object; n is its number of keys
JObj(n) == JVal("obj", n, "", <<>>)
\* the key is not in the dict
Absent == JVal("absent", 0, "", <<>>)

(***************************************************************************)
(* The rule classifier                                                     *)
(***************************************************************************)
Result(d, c, r, k) == [department |-> d, confidence |-> c, reasons |-> r, crisis |-> k]

\* the chain with the academic patterns tried before the identity patterns
match_patterns_academic_first(text) ==
        IF Search(CRISIS_RE, text)
          THEN Result("COUNSEL", 98, <<JStr("Crisis language detected")>>, TRUE)
        ELSE IF Search(OPEN_RE, text)
          THEN Result("OPEN", 85, <<JStr("Academic / course keywords")>>, FALSE)
        ELSE IF Search(IDC_RE, text)
          THEN Result("IDC", 90, <<JStr("Identity-based harm / bullying keywords")>>, FALSE)
        ELSE IF Search(COUNSEL_RE, text)
          THEN Result("COUNSEL", 85, <<JStr("Emotional distress keywords")>>, FALSE)
        ELSE Result("OPEN", 50, <<JStr("No strong signals; defaulting to Open Office")>>, FALSE)

\* the chain with a default branch that explains nothing
match_patterns_silent_default(text) ==
        IF Search(CRISIS_RE, text)
          THEN Result("COUNSEL", 98, <<JStr("Crisis language detected")>>, TRUE)
        ELSE IF Search(IDC_RE, text)
          THEN Result("IDC", 90, <<JStr("Identity-based harm / bullying keywords")>>, FALSE)
        ELSE IF Search(OPEN_RE, text)
          THEN Result("OPEN", 85, <<JStr("Academic / course keywords")>>, FALSE)
        ELSE IF Search(COUNSEL_RE, text)
          THEN Result("COUNSEL", 85, <<JStr("Emotional distress keywords")>>, FALSE)
        ELSE Result("OPEN", 50, <<>>, FALSE)

\* lines 70-107 of fallback_classify, on the normalized text
match_patterns(text) ==
        IF Search(CRISIS_RE, text)
          THEN Result("COUNSEL", 98, <<JStr("Crisis language detected")>>, TRUE)
        ELSE IF Search(IDC_RE, text)
          THEN Result("IDC", 90, <<JStr("Identity-based harm / bullying keywords")>>, FALSE)
        ELSE IF Search(OPEN_RE, text)
          THEN Result("OPEN", 85, <<JStr("Academic / course keywords")>>, FALSE)
        ELSE IF Search(COUNSEL_RE, text)
          THEN Result("COUNSEL", 85, <<JStr("Emotional distress keywords")>>, FALSE)
        ELSE Result("OPEN", 50, <<JStr("No strong signals; defaulting to Open Office")>>, FALSE)

fallback_classify(msg) == match_patterns(_normalize_text(msg))

\* the copy of the chain in view/support_classifier.py (lines 148-202): the
\* same patterns and normalization, its own explanations
support_classifier_match_patterns(text) ==
        IF Search(CRISIS_RE, text)
          THEN Result("COUNSEL", 98,
                      <<JStr("Crisis language detected - immediate support needed")>>, TRUE)
        ELSE IF Search(IDC_RE, text)
          THEN Result("IDC", 90,
                      <<JStr("Identity-based harm / bullying / harassment keywords detected")>>,
                      FALSE)
        ELSE IF Search(OPEN_RE, text)
          THEN Result("OPEN", 85,
                      <<JStr("Academic / grading / course keywords detected")>>, FALSE)
        ELSE IF Search(COUNSEL_RE, text)
          THEN Result("COUNSEL", 85,
                      <<JStr("Emotional distress / wellbeing keywords detected")>>, FALSE)
        ELSE Result("OPEN", 50,
                    <<JStr("No strong signals detected - routing to Open Office")>>, FALSE)

(***************************************************************************)
(* Python values used by the validation of the remote reply                *)
(***************************************************************************)
\* bool(v)
Truthy(v) == CASE v.t \in {"null", "absent"} -> FALSE
               [] v.t = "bool"   -> v.n = 1
               [] v.t = "num"    -> v.n # 0
               [] v.t = "str"    -> v.s # ""
               [] v.t = "list"   -> v.items # <<>>
               [] v.t = "obj"    -> v.n # 0
               [] OTHER          -> TRUE

\* isinstance(v, (int, float)): bool is a subclass of int
IsIntOrFloat(v) == v.t \in {"num", "nan", "inf", "bigint", "bool"}

\* float(v) for v an int, a bool or a float; "overflow" stands for the
\* OverflowError that float() raises on an int too large for a double
ToFloat(v) == CASE v.t = "bool"   -> JNum(v.n * 100)
                [] v.t = "bigint" -> JVal("overflow", 0, "", <<>>)
                [] OTHER          -> v

\* a < b on floats; every comparison with NaN is false
FloatLt(a, b) == CASE a.t = "nan" \/ b.t = "nan" -> FALSE
                   [] a.t = "inf" /\ b.t = "inf" -> a.n < b.n
                   [] a.t = "inf"                -> a.n < 0
                   [] b.t = "inf"                -> b.n > 0
                   [] OTHER                      -> a.n < b.n

\* the builtins min(a, b) and max(a, b): b replaces a only when b < a (b > a)
PyMin(a, b) == IF FloatLt(b, a) THEN b ELSE a
PyMax(a, b) == IF FloatLt(a, b) THEN b ELSE a

\* seq[:n]
Take(seq, n) == SubSeq(seq, 1, IF Len(seq) < n THEN Len(seq) ELSE n)

Departments == {"IDC", "OPEN", "COUNSEL"}
ReasonsCap == 6
DefaultConfidence == 50

\* lines 209 and 214-215: the department whitelist
coerce_department_unchecked(d) == IF d.t = "str" THEN d.s ELSE "OPEN"
coerce_department_counsel(d) == IF d.t = "str" /\ d.s \in Departments THEN d.s ELSE "COUNSEL"
coerce_department(d) == IF d.t = "str" /\ d.s \in Departments THEN d.s ELSE "OPEN"

\* lines 210 and 216-217: result.get("confidence", 0.5), then the type check
numeric_confidence(c) ==
    LET confidence == IF c.t = "absent" THEN JNum(DefaultConfidence) ELSE c
    IN  IF IsIntOrFloat(confidence) THEN confidence ELSE JNum(DefaultConfidence)

\* line 218: max(0.0, min(1.0, float(confidence)))
clamp_confidence(c) == PyMax(JNum(0), PyMin(JNum(100), ToFloat(c)))

\* lines 211 and 219-221: result.get("reasons", []), the type check, the cap
coerce_reasons(r) == Take(IF r.t = "list" THEN r.items ELSE <<>>, ReasonsCap)

\* lines 222-223: crisis forces COUNSEL
crisis_override_missing(department, crisis) == department
crisis_override(department, crisis) == IF crisis THEN "COUNSEL" ELSE department

\* lines 209-230 of classify_message; raised when float() raises
validate(obj) ==
    LET crisis     == Truthy(obj.crisis)
        confidence == numeric_confidence(obj.confidence)
    IN  IF ToFloat(confidence).t = "overflow"
          THEN [raised |-> TRUE, value |-> Result("", 0, <<>>, FALSE)]
        ELSE [raised |-> FALSE,
              value  |-> Result(crisis_override(coerce_department(obj.department), crisis),
                                clamp_confidence(confidence).n,
                                coerce_reasons(obj.reasons),
                                crisis)]

(***************************************************************************)
(* The text of the remote reply                                            *)
(***************************************************************************)
\* The content of the completion is a sequence of tokens: "<fence json>"
\* for three backticks followed by json, "<fence>" for three backticks
\* alone, whitespace, "<json>" for one JSON document (whose
\* parsed value is kept beside the content) and "<prose>" for text that is
\* not JSON.
RECURSIVE DropLeadingWs(_)
DropLeadingWs(toks) == IF toks # <<>> /\ Head(toks) \in Whitespace
                       THEN DropLeadingWs(Tail(toks)) ELSE toks
Reverse(seq) == [i \in 1..Len(seq) |-> seq[Len(seq) + 1 - i]]
DropTrailingWs(toks) == Reverse(DropLeadingWs(Reverse(toks)))
\* str.strip()
Strip(toks) == DropTrailingWs(DropLeadingWs(toks))

\* the re.sub of line 199: it deletes a tagged fence with the whitespace
\* after it at the start of the text, and a fence with the whitespace before
\* it at the end of the text
StripFences(toks) ==
    LET front == IF toks # <<>> /\ Head(toks) = "<fence json>"
                 THEN DropLeadingWs(Tail(toks)) ELSE toks
    IN  IF front # <<>> /\ front[Len(front)] = "<fence>"
        THEN DropTrailingWs(SubSeq(front, 1, Len(front) - 1)) ELSE front

\* json.loads(text) succeeds when the text is one JSON document, possibly
\* surrounded by whitespace
JsonParses(toks) == Strip(toks) = <<"<json>">>

(***************************************************************************)
(* State                                                                   *)
(***************************************************************************)
VARIABLES
    openai_client,    \* current_app.config["OPENAI_CLIENT"] is set
    db_up,            \* db.support_tickets is not None
    support_tickets,  \* the documents of the support_tickets collection
    students,         \* the usernames of the documents of the students collection
    req,              \* the calls of classify_message: one record per call
    text,             \* rule classifier alone: the input text
    normalized,       \* rule classifier alone: _normalize_text(text)
    verdict           \* rule classifier alone: fallback_classify(text)

vars == <<openai_client, db_up, support_tickets, students, req, text, normalized, verdict>>
handlerVars == <<openai_client, db_up, support_tickets, students, req>>
ruleVars == <<text, normalized, verdict>>

\* the calls of the handler that are followed
Calls == {"c1"}

NoResult == Result("", 0, <<>>, FALSE)
NoReply == [kind |-> "none", content |-> <<>>, top |-> "none",
            department |-> Absent, confidence |-> Absent,
            reasons |-> Absent, crisis |-> Absent]
NoResponse == [status |-> 0, body |-> NoResult]
\* no request has been received
NoBody == [kind |-> "none", message |-> [t |-> "absent", text |-> <<>>]]
\* steps is the order in which the call has gone through the remote call
\* ("remote"), the rule classifier ("rule"), the recorder ("persist") and
\* the return of a result ("return"); handed is the result given to the
\* recorder
IdleRequest == [pc |-> "idle", body |-> NoBody,
                username |-> "", role |-> "", message |-> <<>>,
                path |-> "none", reply |-> NoReply, result |-> NoResult,
                saved |-> "none", response |-> NoResponse,
                steps |-> <<>>, handed |-> NoResult]

(***************************************************************************)
(* Inputs                                                                  *)
(***************************************************************************)
\* what token_required finds in the request
Token(valid, username, role) == [valid |-> valid, username |-> username, role |-> role]
Tokens == { Token(FALSE, "", ""),
            Token(TRUE, "alice", "student"),
            Token(TRUE, "dr_bob", "professional") }

\* the value under "message" in the request body
MVal(t, txt) == [t |-> t, text |-> txt]
Body(kind, message) == [kind |-> kind, message |-> message]

CurlyApostrophe == "U+2019"

Messages ==
    { Chars("I want to end my life because I failed my exam"),
      Chars("I don't want to live anymore"),
      Chars("I don") \o <<CurlyApostrophe>> \o Chars("t want to live anymore"),
      Chars("my classmates keep bullying me because of my race"),
      Chars("I missed the deadline for my final project submission"),
      Chars("I feel so alone and anxious lately, I can't sleep"),
      Chars("hello, just checking in"),
      Chars("  The TA was racist about my grades \n") }

Bodies ==
    { Body("nojson", MVal("absent", <<>>)),      \* get_json(silent=True) is None
      Body("falsy", MVal("absent", <<>>)),       \* JSON [] or 0 or "": replaced by {}
      Body("nondict", MVal("absent", <<>>)),     \* JSON [1] or "x" or 7: has no .get
      Body("dict", MVal("absent", <<>>)),
      Body("dict", MVal("null", <<>>)),
      Body("dict", MVal("num", Chars("5"))),
      Body("dict", MVal("str", <<>>)),
      Body("dict", MVal("str", Chars(" \t\n"))) }
    \cup { Body("dict", MVal("str", m)) : m \in Messages }

\* str(v) of the value under "message" ("" when the key is absent)
PyStr(v) == CASE v.t = "null" -> Chars("None")
              [] OTHER        -> v.text

\* the replies of the remote model
MaxRemoteReasons == 7

ReasonStr(k) == JVal("str", k, "reason", <<>>)
StringReasons(n) == JList([k \in 1..n |-> ReasonStr(k)])
MixedReasons == JList(<<JNum(100), JNull, ReasonStr(3), JList(<<>>), JObj(1)>>)

Reply(kind, content, top, d, c, r, k) ==
    [kind |-> kind, content |-> content, top |-> top,
     department |-> d, confidence |-> c, reasons |-> r, crisis |-> k]

ObjectReply(content, d, c, r, k) == Reply("content", content, "object", d, c, r, k)

DepartmentValues == { Absent, JNull, JStr("IDC"), JStr("OPEN"), JStr("COUNSEL"),
                      JStr("CRISIS"), JStr("counsel"), JNum(100), JList(<<JStr("IDC")>>) }
ConfidenceValues == { Absent, JNull, JStr("0.9"), JBool(TRUE), JBool(FALSE),
                      JList(<<JNum(90)>>), JObj(1),
                      JNum(-150), JNum(0), JNum(37), JNum(100), JNum(250),
                      JNaN, JInf, JNegInf, JBigInt }
ReasonsValues == { Absent, JNull, JStr("because"), JObj(1), JNum(300), MixedReasons }
                 \cup { StringReasons(n) : n \in {0, 2, ReasonsCap} }
                 \cup { StringReasons(n) : n \in (ReasonsCap + 1)..MaxRemoteReasons }
CrisisValues == { Absent, JNull, JBool(TRUE), JBool(FALSE), JStr("false"), JStr(""),
                  JNum(0), JNum(100), JList(<<>>) }

PlainJson == <<"<json>">>

ObjectReplies ==
    { ObjectReply(PlainJson, d, JNum(37), StringReasons(2), k) :
          d \in DepartmentValues, k \in CrisisValues }
    \cup
    { ObjectReply(PlainJson, d, c, r, k) :
          d \in {JStr("IDC"), JStr("CRISIS")}, c \in ConfidenceValues,
          r \in {Absent, StringReasons(MaxRemoteReasons)}, k \in {JBool(FALSE), JBool(TRUE)} }
    \cup
    { ObjectReply(PlainJson, JStr("IDC"), JNum(37), r, JBool(FALSE)) : r \in ReasonsValues }
    \cup
    { ObjectReply(content, JStr("IDC"), JNum(37), StringReasons(2), JBool(FALSE)) :
          content \in { <<"<fence json>", "\n", "<json>", "\n", "<fence>">>,
                        <<"<fence>", "\n", "<json>", "\n", "<fence>">>,
                        <<"<fence json>", "<json>">>,
                        <<"\n", "<json>", " ", "<fence>">>,
                        <<"<prose>", " ", "<json>">>,
                        <<"<json>", "<json>">> } }

NonObjectReplies ==
    { Reply("raise", <<>>, "none", Absent, Absent, Absent, Absent),   \* create() raises
      Reply("content", <<>>, "none", Absent, Absent, Absent, Absent), \* content None or ""
      Reply("content", <<"<prose>">>, "none", Absent, Absent, Absent, Absent) }
    \cup
    { Reply("content", PlainJson, top, Absent, Absent, Absent, Absent) :
          top \in {"array", "number", "string", "true", "null"} }

Replies == ObjectReplies \cup NonObjectReplies

(***************************************************************************)
(* The handler of POST /api/classify                                       *)
(***************************************************************************)
\* the students that have registered
Accounts == {"alice", "bob"}

\* the document _init_sample_data puts into an empty collection
SampleTicket == [user_id |-> "sample_user_001", message |-> Chars("Sample support ticket"),
                 department |-> "COUNSEL", confidence |-> 85, crisis |-> FALSE]

\* the documents of the store that have the fields classify writes
IsClassification(doc) == "user_id" \in DOMAIN doc

ErrorResponse(status) ==
    [IdleRequest EXCEPT !.pc = "done", !.response = [status |-> status, body |-> NoResult]]

\* line 149: the role that may classify
role_accepted_any(role) == TRUE
role_accepted(role) == role = "student"

\* token_required and lines 149-164 of classify_message, up to the first
\* call that leaves the process
classify_message(tok, body) ==
    IF ~tok.valid THEN ErrorResponse(401)
    ELSE IF ~role_accepted(tok.role)
      THEN [ErrorResponse(403) EXCEPT !.username = tok.username, !.role = tok.role]
    ELSE IF body.kind = "nondict"
      THEN [ErrorResponse(500) EXCEPT !.username = tok.username, !.role = tok.role]
    ELSE
      LET data    == IF body.kind = "dict" THEN body.message ELSE MVal("absent", <<>>)
          message == Strip(PyStr(data))
          entered == [IdleRequest EXCEPT !.username = tok.username, !.role = tok.role,
                                         !.message = message]
      IN  IF message = <<>>
            THEN [ErrorResponse(400) EXCEPT !.username = tok.username, !.role = tok.role]
          ELSE IF ~openai_client
            THEN [entered EXCEPT !.pc = "save", !.path = "unconfigured",
                                 !.result = fallback_classify(message),
                                 !.steps = <<"rule">>]
          ELSE [entered EXCEPT !.pc = "remote"]

\* lines 203-206: json.loads raised JSONDecodeError
on_json_error_default(message) ==
    [path |-> "parse_failed", result |-> match_patterns(<<>>)]
on_json_error(message) ==
    [path |-> "parse_failed", result |-> fallback_classify(message)]

\* lines 235-239: any other exception of the try block
on_exception_uncaught(message) == [path |-> "exception", result |-> NoResult]
\* a fallback that reads the text to classify from state shared between the
\* calls: the latest document of the store
on_exception_shared(message) ==
    LET written == SelectSeq(support_tickets, IsClassification)
    IN  [path |-> "exception",
         result |-> IF written = <<>> THEN fallback_classify(message)
                    ELSE fallback_classify(written[Len(written)].message)]
on_exception(message) ==
    [path |-> "exception", result |-> fallback_classify(message)]

\* a remote tier that reads a JSON value that is not an object as an object
\* without keys
remote_tier_lenient(message, reply) ==
    IF reply.kind = "raise" THEN on_exception(message)
    ELSE
      LET stripped == StripFences(Strip(reply.content))
      IN  IF ~JsonParses(stripped) THEN on_json_error(message)
          ELSE LET v == validate(reply)
               IN  IF v.raised THEN on_exception(message)
                   ELSE [path |-> "remote_ok", result |-> v.value]

\* a remote tier that asks the rule classifier as well after a remote
\* success and lets its crisis verdict win
remote_tier_second_opinion(message, reply) ==
    IF reply.kind = "raise" THEN on_exception(message)
    ELSE
      LET stripped == StripFences(Strip(reply.content))
      IN  IF ~JsonParses(stripped) THEN on_json_error(message)
          ELSE IF reply.top # "object"
            THEN on_exception(message)
          ELSE LET v == validate(reply)
               IN  IF v.raised THEN on_exception(message)
                   ELSE IF fallback_classify(message).crisis
                     THEN [path |-> "remote_ok", result |-> fallback_classify(message)]
                   ELSE [path |-> "remote_ok", result |-> v.value]

\* lines 188-239 of classify_message, up to the result that is saved
remote_tier(message, reply) ==
    IF reply.kind = "raise" THEN on_exception(message)
    ELSE
      LET stripped == StripFences(Strip(reply.content))
      IN  IF ~JsonParses(stripped) THEN on_json_error(message)
          ELSE IF reply.top # "object"      \* result.get raises AttributeError
            THEN on_exception(message)
          ELSE LET v == validate(reply)
               IN  IF v.raised THEN on_exception(message)
                   ELSE [path |-> "remote_ok", result |-> v.value]

Request(r, tokens, bodies) ==
    /\ req[r].pc = "idle"
    /\ \E tok \in tokens, body \in bodies :
           req' = [req EXCEPT ![r] = [classify_message(tok, body) EXCEPT !.body = body]]
    /\ UNCHANGED <<openai_client, db_up, students, support_tickets, ruleVars>>

\* the steps of one attempt of the remote tier: the rule classifier runs in
\* the two handlers of a failure only
TierSteps(path) == IF path = "remote_ok" THEN <<"remote">> ELSE <<"remote", "rule">>

\* a handler that calls the remote model a second time when the call raised
RemoteCall_retry(r, replies) ==
    /\ req[r].pc = "remote"
    /\ \E reply \in replies :
           LET out == remote_tier(req[r].message, reply)
           IN  IF reply.kind = "raise" /\ req[r].steps = <<>>
               THEN req' = [req EXCEPT ![r].steps = <<"remote">>]
               ELSE req' = [req EXCEPT ![r].pc = "save", ![r].reply = reply,
                                       ![r].path = out.path, ![r].result = out.result,
                                       ![r].steps = @ \o TierSteps(out.path)]
    /\ UNCHANGED <<openai_client, db_up, students, support_tickets, ruleVars>>

RemoteCall(r, replies) ==
    /\ req[r].pc = "remote"
    /\ \E reply \in replies :
           LET out == remote_tier(req[r].message, reply)
           IN  req' = [req EXCEPT ![r].pc = "save", ![r].reply = reply,
                                  ![r].path = out.path, ![r].result = out.result,
                                  ![r].steps = @ \o TierSteps(out.path)]
    /\ UNCHANGED <<openai_client, db_up, students, support_tickets, ruleVars>>

\* the document of lines 115-122, without created_at: nothing reads the
\* time of the write
Ticket(username, msg, result) ==
    [user_id |-> username, message |-> msg, department |-> result.department,
     confidence |-> result.confidence, crisis |-> result.crisis]

\* a recorder that skips a document the collection already holds
save_to_support_tickets_dedup(r) ==
    LET doc == Ticket(req[r].username, req[r].message, req[r].result)
    IN  /\ req[r].pc = "save"
        /\ \/ /\ ~db_up
              /\ req' = [req EXCEPT ![r].pc = "return", ![r].saved = "skipped"]
              /\ UNCHANGED support_tickets
           \/ /\ db_up
              /\ support_tickets' =
                     IF \E i \in 1..Len(support_tickets) : support_tickets[i] = doc
                     THEN support_tickets ELSE Append(support_tickets, doc)
              /\ req' = [req EXCEPT ![r].pc = "return", ![r].saved = "ok"]
           \/ /\ db_up
              /\ req' = [req EXCEPT ![r].pc = "return", ![r].saved = "failed"]
              /\ UNCHANGED support_tickets
        /\ UNCHANGED <<openai_client, db_up, students, ruleVars>>

\* a recorder that keeps one document per user
save_to_support_tickets_upsert(r) ==
    LET doc == Ticket(req[r].username, req[r].message, req[r].result)
        own(d) == "user_id" \in DOMAIN d /\ d.user_id = req[r].username
    IN  /\ req[r].pc = "save"
        /\ \/ /\ ~db_up
              /\ req' = [req EXCEPT ![r].pc = "return", ![r].saved = "skipped"]
              /\ UNCHANGED support_tickets
           \/ /\ db_up
              /\ support_tickets' =
                     IF \E i \in 1..Len(support_tickets) : own(support_tickets[i])
                     THEN [i \in 1..Len(support_tickets) |->
                              IF own(support_tickets[i]) THEN doc ELSE support_tickets[i]]
                     ELSE Append(support_tickets, doc)
              /\ req' = [req EXCEPT ![r].pc = "return", ![r].saved = "ok"]
           \/ /\ db_up
              /\ req' = [req EXCEPT ![r].pc = "return", ![r].saved = "failed"]
              /\ UNCHANGED support_tickets
        /\ UNCHANGED <<openai_client, db_up, students, ruleVars>>

save_to_support_tickets(r) ==
    /\ req[r].pc = "save"
    /\ \/ /\ ~db_up
          /\ req' = [req EXCEPT ![r].pc = "return", ![r].saved = "skipped",
                                ![r].steps = Append(@, "persist"),
                                ![r].handed = req[r].result]
          /\ UNCHANGED support_tickets
       \/ /\ db_up
          /\ support_tickets' = Append(support_tickets,
                                       Ticket(req[r].username, req[r].message, req[r].result))
          /\ req' = [req EXCEPT ![r].pc = "return", ![r].saved = "ok",
                                ![r].steps = Append(@, "persist"),
                                ![r].handed = req[r].result]
       \/ /\ db_up      \* insert_one raises; the exception is caught and printed
          /\ req' = [req EXCEPT ![r].pc = "return", ![r].saved = "failed",
                                ![r].steps = Append(@, "persist"),
                                ![r].handed = req[r].result]
          /\ UNCHANGED support_tickets
    /\ UNCHANGED <<openai_client, db_up, students, ruleVars>>

\* a handler that classifies again for its answer
Return_recomputed(r) ==
    /\ req[r].pc = "return"
    /\ req' = [req EXCEPT ![r].pc = "done",
                          ![r].response = [status |-> 200,
                                           body |-> fallback_classify(req[r].message)]]
    /\ UNCHANGED <<openai_client, db_up, students, support_tickets, ruleVars>>

\* a handler that reports a write that did not succeed
Return_write_error(r) ==
    /\ req[r].pc = "return"
    /\ req' = [req EXCEPT ![r].pc = "done",
                          ![r].response = IF req[r].saved = "ok"
                                          THEN [status |-> 200, body |-> req[r].result]
                                          ELSE [status |-> 500, body |-> NoResult]]
    /\ UNCHANGED <<openai_client, db_up, students, support_tickets, ruleVars>>

\* return jsonify(result), 200
Return(r) ==
    /\ req[r].pc = "return"
    /\ req' = [req EXCEPT ![r].pc = "done",
                          ![r].response = [status |-> 200, body |-> req[r].result],
                          ![r].steps = Append(@, "return")]
    /\ UNCHANGED <<openai_client, db_up, students, support_tickets, ruleVars>>

NotNormalized == <<"<pending>">>

Init ==
    /\ openai_client \in BOOLEAN
    /\ db_up \in BOOLEAN
    /\ support_tickets = IF db_up THEN <<SampleTicket>> ELSE <<>>
    /\ students = Accounts
    /\ req = [c \in Calls |-> IdleRequest]
    /\ text = <<>>
    /\ normalized = NotNormalized
    /\ verdict = NoResult

Next ==
    \E c \in Calls :
        \/ Request(c, Tokens, Bodies)
        \/ RemoteCall(c, Replies)
        \/ save_to_support_tickets(c)
        \/ Return(c)

Spec == Init /\ [][Next]_vars

(***************************************************************************)
(* The remote call that does not come back                                 *)
(***************************************************************************)
\* lines 188-196: create() is called without a timeout, on a client built
\* without one (create_openai_client); when the remote side neither
\* answers nor fails, the handler stays inside the call and nothing in it
\* ends the wait
RemoteHang(r) ==
    /\ req[r].pc = "remote"
    /\ req' = [req EXCEPT ![r].pc = "blocked"]
    /\ UNCHANGED <<openai_client, db_up, students, support_tickets, ruleVars>>

\* the replies that come back, next to the one that does not
HangReplies ==
    NonObjectReplies
    \cup { ObjectReply(PlainJson, d, c, StringReasons(2), JBool(FALSE)) :
               d \in {JStr("IDC"), JStr("CRISIS")}, c \in {JNum(37), JBigInt} }

NextHang ==
    \E c \in Calls :
        \/ Request(c, Tokens, Bodies)
        \/ RemoteCall(c, HangReplies)
        \/ RemoteHang(c)
        \/ save_to_support_tickets(c)
        \/ Return(c)

\* a handler runs on: once the remote call is over, the write and the
\* return are taken.  The remote side is outside the program and nothing
\* obliges it to answer.
SpecHang ==
    /\ Init
    /\ [][NextHang]_vars
    /\ \A c \in Calls : /\ WF_vars(save_to_support_tickets(c))
                        /\ WF_vars(Return(c))

(***************************************************************************)
(* The support-ticket store under concurrent requests                      *)
(***************************************************************************)
\* POST /api/support-ticket, lines 245-271: the document that is inserted,
\* without ticket_id and sent_at, which are read off the clock
TicketDocument(username, data) ==
    [sender_user_id |-> username,
     subject        |-> IF data.subject.t = "absent" THEN JStr("Support Request")
                        ELSE data.subject,
     message_text   |-> IF data.message.t = "absent" THEN JNull ELSE data.message,
     department     |-> IF data.department.t = "absent" THEN JNull ELSE data.department,
     crisis         |-> IF data.crisis.t = "absent" THEN JBool(FALSE) ELSE data.crisis,
     status         |-> "open"]

TicketBody(kind, subject, message, department, crisis) ==
    [kind |-> kind, subject |-> subject, message |-> message,
     department |-> department, crisis |-> crisis]

TicketBodies ==
    { TicketBody("nondict", Absent, Absent, Absent, Absent),
      TicketBody("dict", Absent, JStr("please call me"), JStr("COUNSEL"), Absent),
      TicketBody("dict", Absent, JStr("please call me"), JStr("IDC"), JBool(TRUE)) }

create_support_ticket(r, tokens, bodies) ==
    /\ req[r].pc = "idle"
    /\ \E tok \in tokens, body \in bodies :
         LET answer(status) ==
                 [IdleRequest EXCEPT !.pc = "done", !.body = body,
                                     !.username = tok.username, !.role = tok.role,
                                     !.response = [status |-> status, body |-> NoResult]]
             data == IF body.kind = "dict" THEN body
                     ELSE TicketBody("dict", Absent, Absent, Absent, Absent)
         IN  IF ~tok.valid
               THEN /\ req' = [req EXCEPT ![r] = answer(401)]
                    /\ UNCHANGED support_tickets
             ELSE IF ~db_up
               THEN /\ req' = [req EXCEPT ![r] = answer(503)]
                    /\ UNCHANGED support_tickets
             ELSE IF body.kind = "nondict"       \* data.get raises AttributeError
               THEN /\ req' = [req EXCEPT ![r] = answer(500)]
                    /\ UNCHANGED support_tickets
             ELSE \/ /\ support_tickets' =
                           Append(support_tickets, TicketDocument(tok.username, data))
                     /\ req' = [req EXCEPT ![r] = answer(201)]
                  \/ /\ req' = [req EXCEPT ![r] = answer(500)]   \* insert_one raises
                     /\ UNCHANGED support_tickets
    /\ UNCHANGED <<openai_client, db_up, students, ruleVars>>

\* the requests in flight at the same time: two of classify, one of
\* create_support_ticket
ClassifyCalls == {"c1", "c2"}
TicketCalls == {"t1"}

StoreTokens == { Token(TRUE, "alice", "student"), Token(TRUE, "bob", "student") }
TicketTokens == { Token(FALSE, "", ""), Token(TRUE, "alice", "student") }
StoreMessages == { Chars("I was BULLIED"), Chars("i was bullied"), Chars("exam stress") }
StoreBodies == { Body("dict", MVal("str", m)) : m \in StoreMessages }
StoreReplies ==
    { Reply("raise", <<>>, "none", Absent, Absent, Absent, Absent),
      Reply("content", <<"<prose>">>, "none", Absent, Absent, Absent, Absent),
      ObjectReply(PlainJson, JStr("COUNSEL"), JNum(37), StringReasons(2), JBool(TRUE)) }

InitStore ==
    /\ openai_client \in BOOLEAN
    /\ db_up \in BOOLEAN
    /\ support_tickets = IF db_up THEN <<SampleTicket>> ELSE <<>>
    /\ students = Accounts
    /\ req = [c \in ClassifyCalls \cup TicketCalls |-> IdleRequest]
    /\ text = <<>>
    /\ normalized = NotNormalized
    /\ verdict = NoResult

NextStore ==
    \/ \E c \in ClassifyCalls :
           \/ Request(c, StoreTokens, StoreBodies)
           \/ RemoteCall(c, StoreReplies)
           \/ save_to_support_tickets(c)
           \/ Return(c)
    \/ \E t \in TicketCalls : create_support_ticket(t, TicketTokens, TicketBodies)

SpecStore == InitStore /\ [][NextStore]_vars

(***************************************************************************)
(* Deleting a student account while requests of that student are served    *)
(***************************************************************************)
\* the filter of delete_many at lines 378-380 of auth_routes.py:
\* user_id or sender_user_id is the username
OwnedBy(doc, username) ==
    IF IsClassification(doc) THEN doc.user_id = username
    ELSE doc.sender_user_id = username

\* DELETE /api/student/delete, lines 358-375: token, availability and role
\* checks, then the appointments of the student are deleted
delete_student(r, tokens) ==
    /\ req[r].pc = "idle"
    /\ \E tok \in tokens :
         LET answer(status) ==
                 [IdleRequest EXCEPT !.pc = "done",
                                     !.username = tok.username, !.role = tok.role,
                                     !.response = [status |-> status, body |-> NoResult]]
         IN  req' = [req EXCEPT ![r] =
                 IF ~tok.valid THEN answer(401)
                 ELSE IF ~db_up THEN answer(503)
                 ELSE IF tok.role # "student" THEN answer(403)
                 ELSE [IdleRequest EXCEPT !.pc = "delete_tickets",
                                          !.username = tok.username, !.role = tok.role]]
    /\ UNCHANGED <<openai_client, db_up, students, support_tickets, ruleVars>>

RECURSIVE Without(_, _)
\* the collection after delete_many: the documents of the others, in order
Without(docs, username) ==
    IF docs = <<>> THEN <<>>
    ELSE IF OwnedBy(Head(docs), username) THEN Without(Tail(docs), username)
    ELSE <<Head(docs)>> \o Without(Tail(docs), username)

\* lines 377-381: the delete_many on support_tickets; a pymongo error leaves
\* the handler with status 500
delete_student_tickets(r) ==
    /\ req[r].pc = "delete_tickets"
    /\ \/ /\ support_tickets' = Without(support_tickets, req[r].username)
          /\ req' = [req EXCEPT ![r].pc = "delete_account"]
       \/ /\ req' = [req EXCEPT ![r].pc = "done",
                                 ![r].response = [status |-> 500, body |-> NoResult]]
          /\ UNCHANGED support_tickets
    /\ UNCHANGED <<openai_client, db_up, students, ruleVars>>

\* lines 383-394: the notifications are deleted, then the delete_one on
\* students and the answer: 200 when a document was deleted, 404 otherwise
delete_student_account(r) ==
    /\ req[r].pc = "delete_account"
    /\ students' = students \ {req[r].username}
    /\ req' = [req EXCEPT ![r].pc = "done",
                          ![r].response =
                              [status |-> IF req[r].username \in students THEN 200 ELSE 404,
                               body |-> NoResult]]
    /\ UNCHANGED <<openai_client, db_up, support_tickets, ruleVars>>

\* the requests in flight: one deletion, one classify, one ticket creation
DeleteCalls == {"d1"}
DeleteTokens == { Token(FALSE, "", ""), Token(TRUE, "alice", "student"),
                 Token(TRUE, "zoe", "student"),     \* the account is gone already
                 Token(TRUE, "dr_bob", "professional") }

InitDelete ==
    /\ openai_client \in BOOLEAN
    /\ db_up \in BOOLEAN
    /\ support_tickets = IF db_up THEN <<SampleTicket>> ELSE <<>>
    /\ students = Accounts
    /\ req = [c \in Calls \cup TicketCalls \cup DeleteCalls |-> IdleRequest]
    /\ text = <<>>
    /\ normalized = NotNormalized
    /\ verdict = NoResult

NextDelete ==
    \/ \E c \in Calls :
           \/ Request(c, StoreTokens, StoreBodies)
           \/ RemoteCall(c, StoreReplies)
           \/ save_to_support_tickets(c)
           \/ Return(c)
    \/ \E t \in TicketCalls : create_support_ticket(t, TicketTokens, TicketBodies)
    \/ \E d \in DeleteCalls :
           \/ delete_student(d, DeleteTokens)
           \/ delete_student_tickets(d)
           \/ delete_student_account(d)

SpecDelete == InitDelete /\ [][NextDelete]_vars

(***************************************************************************)
(* The rule classifier alone                                               *)
(***************************************************************************)
MaxWords == 4

Words == << Chars("kill myself"), Chars("Bullied"), Chars("exams"),
            Chars("can't sleep"), Chars("caf") \o <<"U+00E9", " ", "U+3385">>,
            Chars("I don") \o <<CurlyApostrophe>> \o Chars("t want to live") >>
Separators == { <<>>, <<" ">> }

RECURSIVE Join(_, _)
Join(ws, sep) == IF ws = <<>> THEN <<>>
                 ELSE IF Len(ws) = 1 THEN Words[ws[1]]
                 ELSE Words[Head(ws)] \o sep \o Join(Tail(ws), sep)

WordLists == UNION { [1..n -> 1..Len(Words)] : n \in 1..MaxWords }
Texts == { Join(ws, sep) : ws \in WordLists, sep \in Separators }

InitRule ==
    /\ openai_client = FALSE
    /\ db_up = FALSE
    /\ support_tickets = <<>>
    /\ students = {}
    /\ req = [c \in Calls |-> IdleRequest]
    /\ text \in Texts \cup {PyNone}
    /\ normalized = NotNormalized
    /\ verdict = NoResult

\* line 68 of fallback_classify
Normalize ==
    /\ normalized = NotNormalized
    /\ normalized' = _normalize_text(text)
    /\ UNCHANGED <<handlerVars, text, verdict>>

\* lines 70-107 of fallback_classify
Match ==
    /\ normalized # NotNormalized
    /\ verdict = NoResult
    /\ verdict' = match_patterns(normalized)
    /\ UNCHANGED <<handlerVars, text, normalized>>

NextRule == Normalize \/ Match

SpecRule == InitRule /\ [][NextRule]_vars

(***************************************************************************)
(* Properties                                                              *)
(***************************************************************************)
\* the call has returned a classification to its caller
Returned(c) == req[c].pc = "done" /\ req[c].response.status = 200
Answer(c) == req[c].response.body

\* C1: on every path of classify (remote tier unconfigured, succeeded or
\* failed) a returned result with crisis = true has department COUNSEL,
\* whatever department the source tier reported.
CrisisForcesCounsel ==
    \A c \in Calls :
        Returned(c) /\ req[c].path \in {"unconfigured", "remote_ok", "parse_failed", "exception"}
            => (Answer(c).crisis => Answer(c).department = "COUNSEL")

\* a remote reply reporting IDC with a truthy crisis flag is returned as COUNSEL
CrisisForcesCounselWitness ==
    \E c \in Calls :
        /\ Returned(c) /\ req[c].path = "remote_ok"
        /\ req[c].reply.department = JStr("IDC") /\ Truthy(req[c].reply.crisis)
        /\ Answer(c).crisis /\ Answer(c).department = "COUNSEL"

WellFormed(result) ==
    /\ result.department \in Departments
    /\ result.confidence \in 0..100
    /\ DOMAIN result.reasons = 1..Len(result.reasons)
    /\ Len(result.reasons) <= ReasonsCap
    /\ result.crisis \in BOOLEAN

\* C2: every request of an authenticated student with a non-empty message
\* ends with status 200 and a well-formed result (department in the closed
\* set, confidence in [0, 1], at most 6 reasons, boolean crisis), whatever
\* the remote tier and the store do; and no such call is ever stuck.
AlwaysAnswers ==
    \A c \in Calls :
        req[c].role = "student" /\ req[c].message # <<>> =>
            /\ req[c].pc \in {"remote", "save", "return", "done"}
            /\ req[c].pc = "done" => Returned(c) /\ WellFormed(Answer(c))
            /\ req[c].pc # "done" =>
                   ENABLED (RemoteCall(c, Replies) \/ save_to_support_tickets(c) \/ Return(c))

\* the remote call raised, the insert raised, and the caller still got a result
AlwaysAnswersWitness ==
    \E c \in Calls :
        /\ Returned(c) /\ req[c].role = "student" /\ req[c].message # <<>>
        /\ req[c].reply.kind = "raise" /\ req[c].saved = "failed"
        /\ WellFormed(Answer(c))

\* the single remote attempt failed: the call raised, or the text left after
\* removing the fences is not JSON
RemoteAttemptFailed(reply) ==
    \/ reply.kind = "raise"
    \/ reply.kind = "content" /\ ~JsonParses(StripFences(Strip(reply.content)))

\* C3: when the remote tier is configured and its attempt fails (the call
\* raises, or the response text does not parse as JSON), the caller gets
\* status 200 and exactly the rule classifier's result for the same message.
FailureFallsBack ==
    \A c \in Calls :
        req[c].pc = "done" /\ openai_client /\ RemoteAttemptFailed(req[c].reply) =>
            /\ Returned(c)
            /\ Answer(c) = fallback_classify(req[c].message)

\* the remote tier answered with prose and the caller got the crisis result
\* of the rule classifier
FailureFallsBackWitness ==
    \E c \in Calls :
        /\ Returned(c) /\ openai_client
        /\ req[c].reply.kind = "content" /\ req[c].reply.content = <<"<prose>">>
        /\ Answer(c).crisis /\ Answer(c).confidence = 98

\* C4: the rule classifier is a first-match-wins chain crisis > identity >
\* academic > emotional distress > default: the verdict is the one of the
\* highest-priority pattern set that matches the normalized text, and the
\* default OPEN verdict is returned only when no set matches.
PriorityChain ==
    verdict # NoResult =>
        LET crisis   == Search(CRISIS_RE, normalized)
            identity == Search(IDC_RE, normalized)
            academic == Search(OPEN_RE, normalized)
            distress == Search(COUNSEL_RE, normalized)
        IN  /\ crisis => verdict.department = "COUNSEL" /\ verdict.crisis
            /\ ~crisis /\ identity => verdict.department = "IDC" /\ ~verdict.crisis
            /\ ~crisis /\ ~identity /\ academic =>
                   verdict.department = "OPEN" /\ verdict.confidence = 85 /\ ~verdict.crisis
            /\ ~crisis /\ ~identity /\ ~academic /\ distress =>
                   verdict.department = "COUNSEL" /\ ~verdict.crisis
            /\ (verdict.department = "OPEN" /\ verdict.confidence = 50)
                   <=> ~(crisis \/ identity \/ academic \/ distress)

\* a text matching the crisis, the academic and the identity patterns is
\* classified as a crisis
PriorityChainWitness ==
    /\ verdict # NoResult
    /\ Search(CRISIS_RE, normalized) /\ Search(OPEN_RE, normalized)
    /\ Search(IDC_RE, normalized)
    /\ verdict.department = "COUNSEL" /\ verdict.crisis

\* C5 as stated: crisis = true if and only if department = COUNSEL.
CrisisIffCounsel ==
    \A c \in Calls :
        Returned(c) => (Answer(c).crisis <=> Answer(c).department = "COUNSEL")

\* C5 as amended: a result with another department than COUNSEL never has
\* crisis = true; COUNSEL comes with crisis = false exactly from the rule
\* classifier's emotional-distress branch and from a remote result that
\* reports COUNSEL with a falsy crisis flag.
CounselWithoutCrisis ==
    \A c \in Calls :
        Returned(c) =>
            /\ Answer(c).department # "COUNSEL" => ~Answer(c).crisis
            /\ Answer(c).department = "COUNSEL" /\ ~Answer(c).crisis =>
                   IF req[c].path = "remote_ok"
                   THEN req[c].reply.department = JStr("COUNSEL") /\ ~Truthy(req[c].reply.crisis)
                   ELSE LET t == _normalize_text(req[c].message)
                        IN  Search(COUNSEL_RE, t) /\ ~Search(CRISIS_RE, t)

\* the rule classifier returned COUNSEL without crisis
CounselWithoutCrisisWitness ==
    \E c \in Calls :
        /\ Returned(c) /\ req[c].path = "unconfigured"
        /\ Answer(c).department = "COUNSEL" /\ ~Answer(c).crisis

\* the remote tier answered with a JSON object
RemoteObject(reply) ==
    /\ reply.kind = "content"
    /\ JsonParses(StripFences(Strip(reply.content)))
    /\ reply.top = "object"

InTaxonomy(d) == d.t = "str" /\ d.s \in Departments

\* C6: the department of every returned result is IDC, OPEN or COUNSEL, and
\* a remote result whose department is missing or any other value is
\* returned with department OPEN, or COUNSEL when its crisis flag is true.
DepartmentClosedSet ==
    \A c \in Calls :
        Returned(c) =>
            /\ Answer(c).department \in Departments
            /\ RemoteObject(req[c].reply) /\ ~InTaxonomy(req[c].reply.department) =>
                   Answer(c).department =
                       IF Truthy(req[c].reply.crisis) THEN "COUNSEL" ELSE "OPEN"

\* a numeric JSON value below 0.0, above 1.0
BelowZero(v) == \/ v.t = "num" /\ v.n < 0
                \/ v.t = "inf" /\ v.n < 0
                \/ v.t = "bigint" /\ v.n < 0
AboveOne(v) == \/ v.t = "num" /\ v.n > 100
               \/ v.t = "inf" /\ v.n > 0
               \/ v.t = "bigint" /\ v.n > 0

\* C7: every returned confidence is within [0.0, 1.0]; a numeric remote
\* confidence below 0 is returned as 0.0 and one above 1 as 1.0.
ConfidenceClamped ==
    \A c \in Calls :
        Returned(c) =>
            /\ Answer(c).confidence \in 0..100
            /\ RemoteObject(req[c].reply) /\ BelowZero(req[c].reply.confidence) =>
                   Answer(c).confidence = 0
            /\ RemoteObject(req[c].reply) /\ AboveOne(req[c].reply.confidence) =>
                   Answer(c).confidence = 100

\* C8: every returned reasons is a list of at most 6 entries; a remote
\* reasons list is cut to its first 6 entries in their order, and a remote
\* reasons value that is absent or not a list is replaced by the empty list.
ReasonsCapped ==
    \A c \in Calls :
        Returned(c) =>
            /\ Len(Answer(c).reasons) <= ReasonsCap
            /\ RemoteObject(req[c].reply) /\ req[c].reply.reasons.t = "list" =>
                   /\ Len(Answer(c).reasons) <= Len(req[c].reply.reasons.items)
                   /\ \A i \in 1..Len(Answer(c).reasons) :
                          Answer(c).reasons[i] = req[c].reply.reasons.items[i]
                   /\ Len(req[c].reply.reasons.items) >= ReasonsCap =>
                          Len(Answer(c).reasons) = ReasonsCap
            /\ RemoteObject(req[c].reply) /\ req[c].reply.reasons.t # "list" =>
                   Answer(c).reasons = <<>>

\* C9: every element of every returned reasons is a string.
ReasonsAreStrings ==
    \A c \in Calls :
        Returned(c) =>
            \A i \in 1..Len(Answer(c).reasons) : Answer(c).reasons[i].t = "str"

\* C10: a remote confidence that is absent or not a number (a JSON string,
\* null, boolean, list or object) is returned as 0.5.
NonNumericConfidenceDefaults ==
    \A c \in Calls :
        Returned(c) /\ RemoteObject(req[c].reply)
            /\ req[c].reply.confidence.t \in {"absent", "str", "null", "bool", "list", "obj"}
            => Answer(c).confidence = DefaultConfidence

\* the store as the start of the process left it
InitialStore == IF db_up THEN <<SampleTicket>> ELSE <<>>

\* the call did nothing but answer: no remote call, no classifier, no record
Untouched(c) ==
    /\ req[c].reply = NoReply
    /\ req[c].path = "none"
    /\ req[c].result = NoResult
    /\ req[c].saved = "none"
    /\ support_tickets = InitialStore

\* the request body carries no message, or one that is empty once trimmed
MessageMissingOrEmpty(body) ==
    \/ body.kind # "dict"
    \/ body.message.t = "absent"
    \/ body.message.t = "str" /\ Strip(body.message.text) = <<>>

\* C11: a student's classify request is answered with the client error 400
\* exactly when its body has no message or a message that is empty after
\* trimming, and then no remote call is made, no classifier runs and no
\* support ticket is written.
ClientErrorExactly ==
    \A c \in DOMAIN req :
        req[c].pc = "done" /\ req[c].role = "student" =>
            /\ req[c].response.status = 400 <=> MessageMissingOrEmpty(req[c].body)
            /\ req[c].response.status = 400 => Untouched(c)

\* C12: a classify request with a valid token whose role is not student is
\* answered with 403 and does nothing else: no remote call, no
\* classification, no support ticket, whatever its message.
NonStudentRejected ==
    \A c \in DOMAIN req :
        req[c].role \notin {"", "student"} =>
            /\ req[c].pc = "done"
            /\ req[c].response = [status |-> 403, body |-> NoResult]
            /\ Untouched(c)

\* a professional sending a crisis message is answered with 403
NonStudentRejectedWitness ==
    \E c \in DOMAIN req :
        /\ req[c].role = "professional" /\ req[c].response.status = 403
        /\ req[c].body.kind = "dict" /\ req[c].body.message.t = "str"
        /\ fallback_classify(req[c].body.message.text).crisis
        /\ Untouched(c)

\* what the message and the outcome of the remote tier determine, without
\* looking at the store
Determined(c) ==
    IF req[c].path = "unconfigured" THEN fallback_classify(req[c].message)
    ELSE remote_tier(req[c].message, req[c].reply).result

\* C14: a failed or skipped write never changes what classify returns: the
\* status is 200 and the result is the one the message and the outcome of
\* the remote tier determine, whether the write succeeded, failed or was
\* skipped.
WriteOutcomeInvisible ==
    \A c \in DOMAIN req :
        req[c].pc = "done" /\ req[c].saved \in {"ok", "failed", "skipped"} =>
            req[c].response = [status |-> 200, body |-> Determined(c)]

\* the insert raised after a remote success and the caller got the remote
\* result
WriteOutcomeInvisibleWitness ==
    \E c \in DOMAIN req :
        /\ Returned(c) /\ req[c].saved = "failed" /\ req[c].path = "remote_ok"
        /\ Answer(c).department = "IDC" /\ Answer(c).confidence = 37

\* C15 as stated: a remote JSON object whose department is outside the
\* taxonomy makes the call fall back: the result is the rule classifier's.
OutOfTaxonomyFallsBack ==
    \A c \in DOMAIN req :
        Returned(c) /\ RemoteObject(req[c].reply) /\ ~InTaxonomy(req[c].reply.department)
            => Answer(c) = fallback_classify(req[c].message)

\* C15 as amended: a department outside the taxonomy is no failure of the
\* remote tier.  The reply is validated and returned with department OPEN,
\* or COUNSEL when its crisis flag is truthy, and with its own confidence,
\* reasons and crisis; the rule classifier's result is returned only when
\* the validation raises, which it does for a confidence integer too large
\* for a float.
OutOfTaxonomyCoerced ==
    \A c \in DOMAIN req :
        Returned(c) /\ RemoteObject(req[c].reply) /\ ~InTaxonomy(req[c].reply.department)
            => IF req[c].reply.confidence.t = "bigint"
               THEN req[c].path = "exception"
                    /\ Answer(c) = fallback_classify(req[c].message)
               ELSE /\ req[c].path = "remote_ok"
                    /\ Answer(c).department =
                           IF Truthy(req[c].reply.crisis) THEN "COUNSEL" ELSE "OPEN"
                    /\ Answer(c).confidence =
                           clamp_confidence(numeric_confidence(req[c].reply.confidence)).n
                    /\ Answer(c).reasons = coerce_reasons(req[c].reply.reasons)
                    /\ Answer(c).crisis = Truthy(req[c].reply.crisis)

\* the remote tier reported the department CRISIS for a bullying message:
\* the caller got OPEN with the remote confidence, not the rule
\* classifier's IDC
OutOfTaxonomyCoercedWitness ==
    \E c \in DOMAIN req :
        /\ Returned(c) /\ req[c].path = "remote_ok"
        /\ req[c].reply.department = JStr("CRISIS")
        /\ fallback_classify(req[c].message).department = "IDC"
        /\ Answer(c).department = "OPEN" /\ Answer(c).confidence = 37

\* C16: a classify call whose remote call hangs does not block for ever:
\* the hang is handled as a failure of the remote call, so the call
\* eventually returns, through the path of lines 235-239 that returns the
\* rule classifier's result.
HangFallsBack ==
    \A c \in Calls :
        req[c].pc = "blocked" ~> (Returned(c) /\ req[c].path = "exception")

\* the branch of the chain that a normalized text takes
Branch(t) ==
    IF Search(CRISIS_RE, t) THEN "crisis"
    ELSE IF Search(IDC_RE, t) THEN "identity"
    ELSE IF Search(OPEN_RE, t) THEN "academic"
    ELSE IF Search(COUNSEL_RE, t) THEN "distress"
    ELSE "none"

Triple(result) == <<result.department, result.confidence, result.crisis>>

BranchTriple(b) ==
    CASE b = "crisis"   -> <<"COUNSEL", 98, TRUE>>
      [] b = "identity" -> <<"IDC", 90, FALSE>>
      [] b = "academic" -> <<"OPEN", 85, FALSE>>
      [] b = "distress" -> <<"COUNSEL", 85, FALSE>>
      [] b = "none"     -> <<"OPEN", 50, FALSE>>

OneReason(result) ==
    /\ Len(result.reasons) = 1
    /\ result.reasons[1].t = "str" /\ result.reasons[1].s # ""

\* C17: the rule classifier returns a fixed (department, confidence,
\* crisis) per branch - crisis (COUNSEL, 0.98, true), identity (IDC, 0.9,
\* false), academic (OPEN, 0.85, false), emotional distress (COUNSEL, 0.85,
\* false), no match (OPEN, 0.5, false) - and exactly one reason string, in
\* classifier_routes.py and in its copy in view/support_classifier.py.
FixedTriples ==
    verdict # NoResult =>
        LET copy == support_classifier_match_patterns(normalized)
        IN  /\ Triple(verdict) = BranchTriple(Branch(normalized))
            /\ OneReason(verdict)
            /\ Triple(copy) = Triple(verdict)
            /\ OneReason(copy)

\* a text that takes the emotional-distress branch
FixedTriplesWitness ==
    /\ verdict # NoResult
    /\ Branch(normalized) = "distress"
    /\ Triple(verdict) = <<"COUNSEL", 85, FALSE>> /\ OneReason(verdict)

\* the call has produced a result: it is past the point where the recorder
\* is invoked
HasResult(c) == req[c].pc \in {"return", "done"} /\ req[c].path # "none"

ClassificationRecords == SelectSeq(support_tickets, IsClassification)

\* C13: every classify call that returns a result has invoked the recorder
\* exactly once, on each of the four paths; with the store available and no
\* write failing, n such calls leave exactly n new records, also when they
\* carry the same message.
RecordedOncePerResult ==
    /\ \A c \in ClassifyCalls :
           /\ HasResult(c) => req[c].saved \in {"ok", "failed", "skipped"}
           /\ req[c].saved # "none" =>
                  req[c].path \in {"unconfigured", "remote_ok", "parse_failed", "exception"}
    /\ Len(ClassificationRecords) =
           Len(InitialStore) + Cardinality({c \in ClassifyCalls : req[c].saved = "ok"})
    /\ db_up /\ (\A c \in ClassifyCalls : req[c].saved # "failed") =>
           Len(ClassificationRecords) =
               Len(InitialStore) + Cardinality({c \in ClassifyCalls : HasResult(c)})

\* two calls of the same user with the same message returned, and the
\* store holds two new records that are equal
RecordedOncePerResultWitness ==
    /\ \A c \in ClassifyCalls : Returned(c) /\ req[c].saved = "ok"
    /\ req["c1"].username = req["c2"].username
    /\ req["c1"].message = req["c2"].message
    /\ req["c1"].result = req["c2"].result
    /\ Len(ClassificationRecords) = Len(InitialStore) + 2
    /\ ClassificationRecords[2] = ClassificationRecords[3]

FallbackPaths == {"unconfigured", "parse_failed", "exception"}

\* C18: with the remote tier unconfigured or failing, two classify calls
\* whose messages normalize to the same text return the same department,
\* confidence, reasons and crisis, however their steps and those of other
\* requests interleave.
FallbackDeterministic ==
    \A c, d \in ClassifyCalls :
        /\ Returned(c) /\ req[c].path \in FallbackPaths
        /\ Returned(d) /\ req[d].path \in FallbackPaths
        /\ _normalize_text(req[c].message) = _normalize_text(req[d].message)
        => Answer(c) = Answer(d)

\* two calls whose messages differ in case only, one after an exception of
\* the remote call and one after a reply that is not JSON, with a ticket
\* created in between, returned the same result
FallbackDeterministicWitness ==
    /\ Returned("c1") /\ req["c1"].path = "exception"
    /\ Returned("c2") /\ req["c2"].path = "parse_failed"
    /\ req["c1"].message # req["c2"].message
    /\ _normalize_text(req["c1"].message) = _normalize_text(req["c2"].message)
    /\ Answer("c1") = Answer("c2") /\ Answer("c1").department = "IDC"
    /\ \E t \in TicketCalls : req[t].response.status = 201

\* C19: classify and create_support_ticket only append to the store: no
\* step removes or changes a document that is there.
AppendOnly ==
    [][ /\ Len(support_tickets') >= Len(support_tickets)
        /\ \A i \in 1..Len(support_tickets) : support_tickets'[i] = support_tickets[i]
      ]_vars

\* the store holds the document it started with, followed by documents of
\* classify and of create_support_ticket
AppendOnlyWitness ==
    /\ Len(support_tickets) >= 4
    /\ support_tickets[1] = SampleTicket
    /\ \E i \in 2..Len(support_tickets) : IsClassification(support_tickets[i])
    /\ \E i \in 2..Len(support_tickets) : ~IsClassification(support_tickets[i])

\* the step of call c that writes its record
Writes(c) == req[c].saved = "none" /\ req'[c].saved = "ok"

\* C20: the record written for a classify call carries the requester's
\* username, the message that was classified and the department,
\* confidence and crisis of the result returned to the caller of that call.
RecordMatchesResult ==
    /\ [][ \A c \in ClassifyCalls :
               Writes(c) =>
                   /\ Len(support_tickets') = Len(support_tickets) + 1
                   /\ support_tickets'[Len(support_tickets')] =
                          Ticket(req[c].username, req[c].message, req[c].result)
          ]_vars
    /\ [](\A c \in ClassifyCalls :
               Returned(c) /\ req[c].saved = "ok" =>
                   \E i \in 1..Len(support_tickets) :
                       support_tickets[i] =
                           Ticket(req[c].username, req[c].message, Answer(c)))

\* alice's call returned the remote result and bob's the rule classifier's
\* after an exception; the store holds one record for each
RecordMatchesResultWitness ==
    \E c, d \in ClassifyCalls :
        /\ Returned(c) /\ req[c].saved = "ok" /\ req[c].path = "remote_ok"
        /\ Returned(d) /\ req[d].saved = "ok" /\ req[d].path = "exception"
        /\ req[c].username = "alice" /\ req[d].username = "bob"
        /\ \E i, j \in 1..Len(support_tickets) :
               /\ support_tickets[i] = Ticket("alice", req[c].message, Answer(c))
               /\ support_tickets[j] = Ticket("bob", req[d].message, Answer(d))
               /\ support_tickets[i].department # support_tickets[j].department

\* the message matches the crisis patterns of the rule classifier
LocalCrisis(message) == Search(CRISIS_RE, _normalize_text(message))

\* C21: whenever the message matches the local crisis patterns, the result
\* that classify returns has crisis = true and department COUNSEL, with the
\* remote tier unconfigured, failing, or succeeding with crisis = false.
LocalCrisisAlwaysReported ==
    \A c \in DOMAIN req :
        Returned(c) /\ LocalCrisis(req[c].message) =>
            Answer(c).crisis /\ Answer(c).department = "COUNSEL"

\* C22: after any sequence of classify and create_support_ticket
\* operations, every document of the store whose crisis field is true has
\* department COUNSEL.
StoredCrisisIsCounsel ==
    \A i \in 1..Len(support_tickets) :
        LET doc == support_tickets[i]
        IN  IF IsClassification(doc)
            THEN doc.crisis => doc.department = "COUNSEL"
            ELSE doc.crisis = JBool(TRUE) => doc.department = JStr("COUNSEL")

IsRemoteStep(e) == e = "remote"
\* the number of times the call has invoked the remote model
RemoteCallsOf(c) == Len(SelectSeq(req[c].steps, IsRemoteStep))

\* C23: a classify call makes no remote call when no client is configured
\* and exactly one when one is configured; it never calls again after a
\* failure.
SingleRemoteAttempt ==
    \A c \in DOMAIN req :
        /\ RemoteCallsOf(c) <= 1
        /\ ~openai_client => RemoteCallsOf(c) = 0 /\ req[c].reply = NoReply
        /\ HasResult(c) => RemoteCallsOf(c) = IF openai_client THEN 1 ELSE 0
        /\ req[c].pc = "done" /\ req[c].path = "none" => RemoteCallsOf(c) = 0

\* the remote call raised and the call returned after that one attempt
SingleRemoteAttemptWitness ==
    \E c \in DOMAIN req :
        /\ Returned(c) /\ req[c].reply.kind = "raise"
        /\ RemoteCallsOf(c) = 1 /\ req[c].steps = <<"remote", "rule", "persist", "return">>

\* the order of steps of a call on each path
AllowedSteps(path) ==
    CASE path = "unconfigured" -> <<"rule", "persist", "return">>
      [] path = "remote_ok"    -> <<"remote", "persist", "return">>
      [] path \in {"parse_failed", "exception"} -> <<"remote", "rule", "persist", "return">>
      [] OTHER -> <<>>

IsPrefix(a, b) == Len(a) <= Len(b) /\ a = SubSeq(b, 1, Len(a))

\* the remote attempt gave a validated result
RemoteSucceeded(reply) == RemoteObject(reply) /\ ~validate(reply).raised

\* C24: every classify call follows the state machine: the rule classifier
\* runs only with the remote tier unconfigured or after its failed attempt
\* and never after a remote success, whose validated result is final; the
\* recorder is invoked after the result is fixed and before the return; and
\* the value returned is the one handed to the recorder.
FollowsStateMachine ==
    \A c \in DOMAIN req :
        /\ IsPrefix(req[c].steps, AllowedSteps(req[c].path))
        /\ req[c].path = "unconfigured" => ~openai_client
        /\ req[c].path = "remote_ok" =>
               RemoteSucceeded(req[c].reply) /\ req[c].result = validate(req[c].reply).value
        /\ req[c].path \in {"parse_failed", "exception"} =>
               /\ openai_client /\ ~RemoteSucceeded(req[c].reply)
               /\ req[c].result = fallback_classify(req[c].message)
        /\ req[c].pc \in {"return", "done"} /\ req[c].path # "none" =>
               req[c].handed = req[c].result
        /\ Returned(c) =>
               /\ req[c].steps = AllowedSteps(req[c].path)
               /\ Answer(c) = req[c].handed

\* a remote success for a message that the rule classifier would have
\* called a crisis: the remote result was recorded and returned
FollowsStateMachineWitness ==
    \E c \in DOMAIN req :
        /\ Returned(c) /\ req[c].path = "remote_ok" /\ req[c].saved = "ok"
        /\ LocalCrisis(req[c].message) /\ ~Answer(c).crisis
        /\ req[c].steps = <<"remote", "persist", "return">>
        /\ Answer(c) = req[c].handed

\* the same text typed with the ASCII apostrophe
WithPlainApostrophe(msg) == Replace(msg, CurlyApostrophe, "'")

\* C25: normalization replaces every curly apostrophe with the ASCII one,
\* so a text with curly apostrophes is classified as the same text written
\* with ASCII apostrophes.
CurlyApostropheNormalized ==
    /\ normalized # NotNormalized => CurlyApostrophe \notin RangeOf(normalized)
    /\ verdict # NoResult => verdict = fallback_classify(WithPlainApostrophe(text))

\* a JSON document between an opening and a closing fence
FencedJson(open) == <<open, "\n", "<json>", "\n", "<fence>">>

\* C26: a remote response made of an opening fence (tagged json or not), a
\* JSON object and a closing fence is parsed as the object: the call
\* continues with the validated remote result, not with the rule
\* classifier's.
FencedJsonParsed ==
    \A c \in DOMAIN req :
        /\ req[c].path # "none" /\ req[c].reply.kind = "content"
        /\ req[c].reply.content \in {FencedJson("<fence json>"), FencedJson("<fence>")}
        /\ req[c].reply.top = "object" /\ ~validate(req[c].reply).raised
        => /\ req[c].path = "remote_ok"
           /\ req[c].result = validate(req[c].reply).value

\* C27: normalization is idempotent and total: normalizing a normalized
\* text changes nothing, and a missing (None) input gives the empty text.
NormalizeIdempotentTotal ==
    normalized # NotNormalized =>
        /\ normalized # PyNone
        /\ _normalize_text(normalized) = normalized
        /\ text = PyNone => normalized = <<>>

\* a text with an accented letter and a compatibility character was
\* decomposed and lowered, and normalizing the outcome again changes nothing
NormalizeIdempotentTotalWitness ==
    /\ text # PyNone /\ normalized # NotNormalized /\ normalized # text
    /\ "U+3385" \in RangeOf(text) /\ "U+00E9" \in RangeOf(text)
    /\ "U+0301" \in RangeOf(normalized) /\ "k" \in RangeOf(normalized)
    /\ _normalize_text(normalized) = normalized

\* the reply is one JSON document that is not an object
NonObjectJson(reply) ==
    /\ reply.kind = "content"
    /\ JsonParses(StripFences(Strip(reply.content)))
    /\ reply.top \in {"array", "number", "string", "true", "null"}

\* C28: a remote response that parses as JSON but is not an object is a
\* remote failure: the call returns status 200 with the rule classifier's
\* result for the message and writes exactly one record.
NonObjectIsFailure ==
    \A c \in DOMAIN req :
        req[c].path # "none" /\ NonObjectJson(req[c].reply) =>
            /\ req[c].path = "exception"
            /\ req[c].result = fallback_classify(req[c].message)
            /\ req[c].pc = "done" =>
                   Returned(c) /\ Answer(c) = fallback_classify(req[c].message)
            /\ Len(support_tickets) =
                   Len(InitialStore) + IF req[c].saved = "ok" THEN 1 ELSE 0
            /\ HasResult(c) /\ db_up /\ req[c].saved # "failed" =>
                   /\ Len(support_tickets) = Len(InitialStore) + 1
                   /\ support_tickets[Len(support_tickets)].department =
                          req[c].result.department

\* the remote model answered with a JSON array for a message about
\* discrimination: the caller got the rule result IDC and one record exists
NonObjectIsFailureWitness ==
    \E c \in DOMAIN req :
        /\ Returned(c) /\ NonObjectJson(req[c].reply) /\ req[c].reply.top = "array"
        /\ Answer(c).department = "IDC" /\ req[c].saved = "ok"
        /\ Len(support_tickets) = Len(InitialStore) + 1

\* the JSON object of the request carries no usable message: the key is
\* absent, or its value is null, the empty string or whitespace only
NoUsableMessage(body) ==
    /\ body.kind = "dict"
    /\ \/ body.message.t \in {"absent", "null"}
       \/ body.message.t = "str" /\ Strip(body.message.text) = <<>>

\* C29: a student's classify request whose message is absent, null, empty
\* or whitespace only is rejected with the client error 400, and nothing is
\* classified or recorded for it.
UnusableMessageRejected ==
    \A c \in DOMAIN req :
        req[c].pc # "idle" /\ req[c].role = "student" /\ NoUsableMessage(req[c].body) =>
            /\ req[c].pc = "done"
            /\ req[c].response.status = 400
            /\ Untouched(c)

\* the store holds a document of the user
HoldsRecordOf(docs, username) ==
    \E i \in 1..Len(docs) : OwnedBy(docs[i], username)

\* C30: at the moment delete_student answers 200 for a username the
\* support-ticket store holds no document with that user_id or
\* sender_user_id, also when classify and create_support_ticket requests of
\* the user are served in between.
DeletionLeavesNoRecord ==
    [][\A d \in DeleteCalls :
           req[d].pc # "done" /\ req'[d].pc = "done" /\ req'[d].response.status = 200
               => ~HoldsRecordOf(support_tickets', req'[d].username)]_vars

=============================================================================
